---- MODULE Spec2Model ----
(***************************************************************************)
(* Booking engine of the fitness club (api/models.py): User, WorkSchedule,  *)
(* Trainer, Room, Training, Booking, the post_save receiver of User, the   *)
(* Booking pre_save guard and the tables with their constraints.           *)
(*                                                                         *)
(* Times of day are slots of half an hour: slot t is the time              *)
(* (t \div 2):(30 * (t % 2)).  A booking_time is a DateTimeField; can_book  *)
(* keeps only its time of day (datetime.fromisoformat(s).time()) and the   *)
(* bookings_count filter only its hour (booking_time__hour), so the date   *)
(* is read nowhere and a booking_time is modelled by its slot.             *)
(***************************************************************************)
EXTENDS Integers, FiniteSets, Bags, TLC

MaxTime == 2
MaxCapacity == 2
MaxUsers == 2
MaxRequests == 2

\* NULL of a foreign key
None == "None"
\* no row (a nullable reference to a row that is not there)
Null == [null |-> TRUE]
\* a booking_time that is None
NoTime == 0 - 1

Time == 0..MaxTime
Users == 1..MaxUsers
Requests == 1..MaxRequests
TrainingIds == {"T1", "T2"}
\* primary keys of api_room
RoomIds == {"R1", "R2"}
\* primary keys of api_user of the accounts the staff is drawn from
UserIds == {"tr", "u"}

\* datetime.time.hour of a slot
hour(t) == t \div 2

TRAINING_TYPES == {"GT", "PT", "SW"}
ROLES == {"CL", "TR", "AD"}
GENDERS == {"M", "F"}

\* rows of api_trainer, each with its rows of the rooms relation; user is the
\* key a Training.trainer refers to, gender is '' until it is chosen
Trainers == [user : UserIds, gender : GENDERS \cup {""},
             rooms : SUBSET RoomIds, work_schedule : {None, "ws"}]

\* rows of api_workschedule (the second class Meta of WorkSchedule replaces the
\* first one, so no CheckConstraint restricts the four fields)
WorkSchedules == [start_time : Time, end_time : Time,
                  break_start : Time, break_end : Time]

\* rows of api_training: CheckConstraint start_time < end_time
Trainings ==
    {r \in [trainer : {None, "tr"}, room : RoomIds,
            training_type : TRAINING_TYPES,
            group_training_type : {None, "g"},
            start_time : Time, end_time : Time] : r.start_time < r.end_time}

\* rows of api_booking as a save() may hand them to the guard and to the table
Bookings == [user : Users, training : TrainingIds \cup {None},
             booking_time : Time \cup {NoTime}]

VARIABLES
    users,          \* api_user: UserIds -> User.role, or None for no such row
    trainers,       \* api_trainer with the rooms of each row: a bag of rows
    capacity,       \* Room.capacity of the room "R1" the bookings are made in
    work_schedule,  \* Trainer.work_schedule of the trainer "tr": the row "ws" of
                    \* api_workschedule, or Null when there is none
    trainings,      \* api_training: TrainingIds -> row, or Null for no such row
    bookings,       \* api_booking: a bag of rows (the pk is read nowhere)
    pc,             \* per request: where its Booking save stands
    req,            \* per request: the Booking instance being saved
    outcome         \* what the last handler ended with

vars == <<users, trainers, capacity, work_schedule, trainings, bookings,
          pc, req, outcome>>

----------------------------------------------------------------------------
\* the sub-bag of the rows of B that satisfy P
Filter(B, P(_)) == [r \in {x \in BagToSet(B) : P(x)} |-> B[r]]

\* (mutant) is_available that only compares the start of the interval
WorkSchedule_is_available_from_start(ws, start_time, end_time) ==
    ws.start_time <= start_time

\* WorkSchedule.is_available
WorkSchedule_is_available(ws, start_time, end_time) ==
    ws.start_time <= start_time /\ ws.end_time >= end_time

\* Trainer.is_available (of the trainer "tr")
Trainer_is_available(start_time, end_time) ==
    IF work_schedule = Null THEN FALSE
    ELSE WorkSchedule_is_available(work_schedule, start_time, end_time)

\* (mutant) the count over the rows booked strictly before end_time
bookings_count_before_end(T) ==
    LET self == trainings[T]
        counted(b) == /\ b.training = T
                      /\ b.booking_time >= self.start_time
                      /\ b.booking_time < self.end_time
    IN  BagCardinality(Filter(bookings, counted))

\* Booking.objects.filter(training=self,
\*     booking_time__hour__range=(start_time.hour, end_time.hour)).count()
bookings_count(T) ==
    LET self == trainings[T]
        counted(b) == /\ b.training = T
                      /\ hour(b.booking_time) >= hour(self.start_time)
                      /\ hour(b.booking_time) <= hour(self.end_time)
    IN  BagCardinality(Filter(bookings, counted))

\* Training.objects.filter(trainer=, group_training_type=, start_time__lte=,
\*     end_time__gte=): the filter runs over every row, self included
same_group_trainings(T) ==
    LET self == trainings[T]
    IN  {o \in TrainingIds :
            /\ trainings[o] # Null
            /\ trainings[o].trainer = self.trainer
            /\ trainings[o].group_training_type = self.group_training_type
            /\ trainings[o].start_time <= self.start_time
            /\ trainings[o].end_time >= self.end_time}

\* work_schedule.break_start <= booking_time <= work_schedule.break_end
in_break(ws, booking_time) ==
    ws.break_start <= booking_time /\ booking_time <= ws.break_end

\* (mutant) the break-time test with both ends excluded
break_check_exclusive(T, booking_time) ==
    IF trainings[T].trainer = None THEN "AttributeError:work_schedule"
    ELSE IF work_schedule = Null THEN "AttributeError:break_start"
    ELSE IF /\ work_schedule.break_start < booking_time
            /\ booking_time < work_schedule.break_end THEN "False"
    ELSE "pass"

\* (mutant) the break-time test skipped when there is no trainer
break_check_optional(T, booking_time) ==
    IF trainings[T].trainer = None THEN "pass"
    ELSE IF work_schedule = Null THEN "AttributeError:break_start"
    ELSE IF in_break(work_schedule, booking_time) THEN "False"
    ELSE "pass"

\* the head of can_book: work_schedule = self.trainer.work_schedule and the
\* break-time test.  None has no attribute work_schedule (no trainer) and no
\* attribute break_start (a trainer without schedule): AttributeError.
break_check(T, booking_time) ==
    IF trainings[T].trainer = None THEN "AttributeError:work_schedule"
    ELSE IF work_schedule = Null THEN "AttributeError:break_start"
    ELSE IF in_break(work_schedule, booking_time) THEN "False"
    ELSE "pass"

\* Training.can_book: "True", "False", or the AttributeError it raises
can_book(T, booking_time) ==
    LET self == trainings[T]
        count == bookings_count(T)
        seats == IF count < capacity THEN "True" ELSE "False"
        head == break_check(T, booking_time)
    IN  IF head # "pass" THEN head
        ELSE IF self.training_type = "GT" THEN
            IF ~Trainer_is_available(self.start_time, self.end_time) THEN "False"
            ELSE IF same_group_trainings(T) = {} THEN "False"
            ELSE seats
        ELSE IF self.training_type = "PT" THEN
            IF count > 0 \/ self.trainer = None THEN "False"
            ELSE IF ~Trainer_is_available(self.start_time, self.end_time) THEN "False"
            ELSE seats
        ELSE seats

\* the test shared by Booking.clean and check_booking_time on an instance b:
\* "ok", "ValidationError", or an AttributeError (training is None and has no
\* attribute can_book, or can_book raised)
guard(b) ==
    IF b.booking_time = NoTime THEN "ok"
    ELSE IF b.training = None THEN "AttributeError:can_book"
    ELSE LET r == can_book(b.training, b.booking_time)
         IN  IF r = "True" THEN "ok"
             ELSE IF r = "False" THEN "ValidationError"
             ELSE r

\* Booking.clean
Booking_clean(b) == guard(b)

\* (mutant) a receiver that lets a refused booking_time through
check_booking_time_lax(b) ==
    IF guard(b) = "ValidationError" THEN "ok" ELSE guard(b)

\* the pre_save receiver of Booking
check_booking_time(b) == guard(b)

\* (mutant) the constraint over (user, training, booking_time)
unique_booking_per_user_and_time(b) ==
    \/ b.training = None
    \/ \A x \in BagToSet(bookings) :
           ~(x.user = b.user /\ x.training = b.training
                /\ x.booking_time = b.booking_time)

\* UniqueConstraint(fields=['user', 'training']): NULL trainings are distinct
unique_booking_per_user(b) ==
    \/ b.training = None
    \/ \A x \in BagToSet(bookings) :
           ~(x.user = b.user /\ x.training = b.training)

\* the INSERT of a Booking row: NOT NULL booking_time, then the constraint
insert(b) ==
    IF b.booking_time = NoTime THEN "IntegrityError:booking_time"
    ELSE IF ~unique_booking_per_user(b) THEN "IntegrityError:unique_booking_per_user"
    ELSE "saved"

\* the names an attribute access on a Room resolves: its fields and the
\* reverse relations (Training.room has related_name 'room_trainings',
\* Trainer.rooms has related_name 'trainers')
Room_attributes ==
    {"id", "room_type", "name", "capacity", "room_trainings", "trainers"}

\* Room.available_seats of the room "R1": the number it returns, or the
\* AttributeError of self.trainings
Room_available_seats ==
    IF "trainings" \notin Room_attributes
    THEN [raised |-> "AttributeError:trainings"]
    ELSE LET held(b) == /\ b.training # None
                        /\ trainings[b.training].room = "R1"
         IN  [raised |-> None,
              seats |-> capacity - BagCardinality(Filter(bookings, held))]

\* the names a query on Training resolves: its fields and the reverse
\* relation of Booking.training (related_name 'training_bookings')
Training_lookups ==
    {"id", "trainer", "room", "training_type", "group_training_type",
     "start_time", "end_time", "training_bookings"}

\* Training.get_available_trainings: the Trainings the query returns, or the
\* FieldError of the lookup 'bookings'
get_available_trainings(start_time) ==
    IF "bookings" \notin Training_lookups
    THEN [raised |-> "FieldError:bookings"]
    ELSE [raised |-> None,
          trainings |->
              {T \in TrainingIds :
                  /\ trainings[T] # Null
                  /\ trainings[T].start_time >= start_time
                  /\ LET inside(b) ==
                             /\ b.training = T
                             /\ b.booking_time >= trainings[T].start_time
                             /\ b.booking_time <= trainings[T].end_time
                         of(b) == b.training = T
                     IN  /\ BagCardinality(Filter(bookings, inside)) = 0
                         /\ BagCardinality(Filter(bookings, of)) < capacity}]

\* the trainings a Booking may point to: the existing rows, or NULL
Targets == {T \in TrainingIds : trainings[T] # Null} \cup {None}

NewBookings == {b \in Bookings : b.training \in Targets}

----------------------------------------------------------------------------
\* the account of the trainer "tr" and its Trainer row, authorized for "R1"
Staff ==
    /\ users = [u \in UserIds |-> IF u = "tr" THEN "TR" ELSE None]
    /\ trainers = SetToBag({[user |-> "tr", gender |-> "M", rooms |-> {"R1"},
                             work_schedule |-> IF work_schedule = Null
                                               THEN None ELSE "ws"]})

\* The data the administrator has entered: the room "R1", the trainer "tr" and
\* one or two trainings held in "R1", drawn from the sets given.
Seeded(schedules, first, second(_)) ==
    /\ capacity \in 1..MaxCapacity
    /\ work_schedule \in {Null} \cup schedules
    /\ Staff
    /\ \E a \in {t \in first : t.room = "R1"} : \E b \in {Null} \cup second(a) :
          trainings = [T \in TrainingIds |-> IF T = "T1" THEN a ELSE b]

\* schedules whose work window is the whole day, with any break
DaySchedules ==
    {w \in WorkSchedules : w.start_time = 0 /\ w.end_time = MaxTime}

\* schedules with a break in the last slot, with any work window that is not
\* empty
LateBreaks ==
    {w \in WorkSchedules : /\ w.start_time < w.end_time
                           /\ w.break_start = MaxTime /\ w.break_end = MaxTime}

\* the whole-day schedule with a break in the last slot
LateBreak == DaySchedules \cap LateBreaks

\* trainings that pass the group-type rules of Training.clean
TypedTrainings ==
    {t \in Trainings : t.group_training_type = "g" <=> t.training_type = "GT"}

\* those from midnight on
MorningTrainings == {t \in TypedTrainings : t.start_time = 0}

\* the group trainings among them
GroupTrainings == {t \in MorningTrainings : t.training_type = "GT"}

\* no second training
Alone(a) == {}

\* a second training with the same fields (the same class once more)
Parallel(a) == {a}

NoBookings ==
    /\ bookings = EmptyBag
    /\ pc = [r \in Requests |-> "idle"]
    /\ req = [r \in Requests |-> Null]
    /\ outcome = "none"

Init ==
    /\ Seeded({w \in DaySchedules : w.break_start <= w.break_end},
              MorningTrainings, Alone)
    /\ NoBookings

SeqInit ==
    /\ \/ Seeded(DaySchedules, MorningTrainings, Alone)
       \/ Seeded(LateBreaks, TypedTrainings, Alone)
       \/ Seeded(LateBreak, GroupTrainings, Parallel)
    /\ NoBookings

----------------------------------------------------------------------------
\* Booking requests running concurrently.  A request is a Booking save,
\* Model.save(): the pre_save receiver, then the INSERT.  Nothing in the code
\* holds a lock or opens a transaction around the two, so each is a step of
\* its own.

\* instance.save(), first half: pre_save is sent and check_booking_time runs
pre_save(r) ==
    /\ pc[r] = "idle"
    /\ \E b \in NewBookings :
          LET res == check_booking_time(b)
          IN  IF res = "ok"
              THEN /\ pc' = [pc EXCEPT ![r] = "checked"]
                   /\ req' = [req EXCEPT ![r] = b]
                   /\ UNCHANGED outcome
              ELSE /\ outcome' = res
                   /\ UNCHANGED <<pc, req>>
    /\ UNCHANGED <<users, trainers, capacity, work_schedule, trainings, bookings>>

\* instance.save(), second half: the INSERT
save_base(r) ==
    /\ pc[r] = "checked"
    /\ LET res == insert(req[r])
       IN  /\ outcome' = res
           /\ bookings' = IF res = "saved"
                          THEN bookings (+) SetToBag({req[r]})
                          ELSE bookings
    /\ pc' = [pc EXCEPT ![r] = "idle"]
    /\ req' = [req EXCEPT ![r] = Null]
    /\ UNCHANGED <<users, trainers, capacity, work_schedule, trainings>>

\* Booking.delete(): a cancellation
delete ==
    /\ \E b \in BagToSet(bookings) :
          bookings' = bookings (-) SetToBag({b})
    /\ outcome' = "deleted"
    /\ UNCHANGED <<users, trainers, capacity, work_schedule, trainings, pc, req>>

Next ==
    \/ \E r \in Requests : pre_save(r)
    \/ \E r \in Requests : save_base(r)
    \/ delete

Spec == Init /\ [][Next]_vars

----------------------------------------------------------------------------
\* Booking saves one after the other: a save runs to its end before the next
\* handler starts.

\* what full_clean() (when the caller validates) and save() end with
save_result(b, validate) ==
    LET c == IF validate THEN Booking_clean(b) ELSE "ok"
        g == IF c = "ok" THEN check_booking_time(b) ELSE c
    IN  IF g = "ok" THEN insert(b) ELSE g

save ==
    /\ \E b \in NewBookings, validate \in BOOLEAN :
          LET res == save_result(b, validate)
          IN  /\ outcome' = res
              /\ bookings' = IF res = "saved"
                             THEN bookings (+) SetToBag({b})
                             ELSE bookings
    /\ UNCHANGED <<users, trainers, capacity, work_schedule, trainings, pc, req>>

SeqNext == save \/ delete

SeqSpec == SeqInit /\ [][SeqNext]_vars

----------------------------------------------------------------------------
\* Administration of the Trainings and of the rooms of the trainer "tr".

\* instances a Training save() may hand to clean() and to the table
TrainingInstances ==
    [trainer : {None, "tr"}, room : RoomIds, training_type : TRAINING_TYPES,
     group_training_type : {None, "g"}, start_time : Time, end_time : Time]

\* self.trainer.rooms.all() of the Trainer row with key tr
Trainer_rooms(tr) ==
    UNION {x.rooms : x \in {y \in BagToSet(trainers) : y.user = tr}}

\* (mutant) clean without the rule on FREE trainings
Training_clean_free_allowed(self) ==
    IF self.training_type = "GT" /\ self.group_training_type = None
    THEN "ValidationError:group_type_missing"
    ELSE IF self.training_type # "GT" /\ self.group_training_type # None
    THEN "ValidationError:group_type_given"
    ELSE IF self.trainer # None /\ self.room \notin Trainer_rooms(self.trainer)
    THEN "ValidationError:room"
    ELSE "ok"

\* Training.clean: "ok" or the ValidationError of the first rule broken
Training_clean(self) ==
    IF self.training_type = "GT" /\ self.group_training_type = None
    THEN "ValidationError:group_type_missing"
    ELSE IF self.training_type # "GT" /\ self.group_training_type # None
    THEN "ValidationError:group_type_given"
    ELSE IF self.trainer # None /\ self.room \notin Trainer_rooms(self.trainer)
    THEN "ValidationError:room"
    ELSE IF self.trainer # None /\ self.training_type = "SW"
    THEN "ValidationError:free_with_trainer"
    ELSE "ok"

\* (mutant) the constraint with start_time__lte
api_training_start_time_lte_end_time(row) == row.start_time <= row.end_time

\* CheckConstraint(check=Q(start_time__lt=F('end_time')),
\*     name='api_training_start_time_lt_end_time')
api_training_start_time_lt_end_time(row) == row.start_time < row.end_time

\* the INSERT or UPDATE of a Training row under the constraint of Training.Meta
Training_write(row) ==
    IF ~api_training_start_time_lt_end_time(row)
    THEN "IntegrityError:api_training_start_time_lt_end_time"
    ELSE "Training.saved"

\* what full_clean() (when the caller validates) and save() end with
Training_save_result(self, validate) ==
    LET c == IF validate THEN Training_clean(self) ELSE "ok"
    IN  IF c = "ok" THEN Training_write(self) ELSE c

\* a create or update of the Training with pk "T1"
Training_save(validate) ==
    /\ \E self \in TrainingInstances :
          LET res == Training_save_result(self, validate)
          IN  /\ outcome' = res
              /\ trainings' = IF res = "Training.saved"
                              THEN [trainings EXCEPT !["T1"] = self]
                              ELSE trainings
    /\ UNCHANGED <<users, trainers, capacity, work_schedule, bookings, pc, req>>

\* Training.delete(): the Bookings of the Training go with it (CASCADE)
Training_delete ==
    /\ trainings["T1"] # Null
    /\ trainings' = [trainings EXCEPT !["T1"] = Null]
    /\ LET kept(b) == b.training # "T1" IN bookings' = Filter(bookings, kept)
    /\ outcome' = "Training.deleted"
    /\ UNCHANGED <<users, trainers, capacity, work_schedule, pc, req>>

\* Trainer.add_room
Trainer_add_room(tr, room) ==
    /\ \E x \in BagToSet(trainers) : x.user = tr
    /\ LET added(x) == IF x.user = tr
                       THEN [x EXCEPT !.rooms = @ \cup {room}] ELSE x
       IN  trainers' = BagOfAll(added, trainers)
    /\ outcome' = "Trainer.rooms.added"
    /\ UNCHANGED <<users, capacity, work_schedule, trainings, bookings, pc, req>>

\* Trainer.remove_room
Trainer_remove_room(tr, room) ==
    /\ \E x \in BagToSet(trainers) : x.user = tr
    /\ LET removed(x) == IF x.user = tr
                         THEN [x EXCEPT !.rooms = @ \ {room}] ELSE x
       IN  trainers' = BagOfAll(removed, trainers)
    /\ outcome' = "Trainer.rooms.removed"
    /\ UNCHANGED <<users, capacity, work_schedule, trainings, bookings, pc, req>>

\* the trainer "tr" with a schedule, the room "R1" and no Training yet
TrainingInit ==
    /\ capacity = 1
    /\ work_schedule \in LateBreak
    /\ Staff
    /\ trainings = [T \in TrainingIds |-> Null]
    /\ NoBookings

\* Training saves with and without full_clean()
TrainingNext ==
    \/ \E validate \in BOOLEAN : Training_save(validate)
    \/ Training_delete
    \/ \E room \in RoomIds : Trainer_add_room("tr", room)
    \/ \E room \in RoomIds : Trainer_remove_room("tr", room)

TrainingSpec == TrainingInit /\ [][TrainingNext]_vars

\* Training saves through the forms of the admin site, which call full_clean()
AdminNext ==
    \/ Training_save(TRUE)
    \/ Training_delete
    \/ \E room \in RoomIds : Trainer_add_room("tr", room)
    \/ \E room \in RoomIds : Trainer_remove_room("tr", room)

AdminSpec == TrainingInit /\ [][AdminNext]_vars

----------------------------------------------------------------------------
\* The accounts and the Trainer rows the post_save receiver of User creates.

\* Trainer(user=instance) as get_or_create builds it: the fields at their
\* defaults and no room
Trainer_defaults(u) ==
    [user |-> u, gender |-> "", rooms |-> {}, work_schedule |-> None]

\* (mutant) the row of u overwritten with the defaults (create or overwrite)
Trainer_update_or_create(u) ==
    LET others(x) == x.user # u
    IN  Filter(trainers, others) (+) SetToBag({Trainer_defaults(u)})

\* Trainer.objects.get_or_create(user=instance): the table afterwards
Trainer_get_or_create(u) ==
    IF \E x \in BagToSet(trainers) : x.user = u THEN trainers
    ELSE trainers (+) SetToBag({Trainer_defaults(u)})

\* the post_save receiver of User: the Trainer table afterwards
create_or_update_trainer_profile(u, role) ==
    IF role = "TR" THEN Trainer_get_or_create(u) ELSE trainers

\* User.save(), a create or an update with any role, and its post_save signal
User_save(u, role) ==
    /\ users' = [users EXCEPT ![u] = role]
    /\ trainers' = create_or_update_trainer_profile(u, role)
    /\ outcome' = "User.saved"
    /\ UNCHANGED <<capacity, work_schedule, trainings, bookings, pc, req>>

\* User.delete(): the Trainer of the user, the Trainings of that Trainer and
\* their Bookings go with it (CASCADE)
User_delete(u) ==
    /\ users[u] # None
    /\ users' = [users EXCEPT ![u] = None]
    /\ LET others(x) == x.user # u IN trainers' = Filter(trainers, others)
    /\ LET gone(T) == trainings[T] # Null /\ trainings[T].trainer = u
           kept(b) == b.training = None \/ ~gone(b.training)
       IN  /\ trainings' = [T \in TrainingIds |->
                               IF gone(T) THEN Null ELSE trainings[T]]
           /\ bookings' = Filter(bookings, kept)
    /\ outcome' = "User.deleted"
    /\ UNCHANGED <<capacity, work_schedule, pc, req>>

\* Trainer.save() of the row of u with gender and work_schedule as edited
Trainer_save(u, gender, schedule) ==
    /\ \E x \in BagToSet(trainers) : x.user = u
    /\ LET edited(x) == IF x.user = u
                        THEN [x EXCEPT !.gender = gender,
                                       !.work_schedule = schedule]
                        ELSE x
       IN  trainers' = BagOfAll(edited, trainers)
    /\ outcome' = "Trainer.saved"
    /\ UNCHANGED <<users, capacity, work_schedule, trainings, bookings, pc, req>>

\* no account yet, one WorkSchedule row to refer to, no Training
UserInit ==
    /\ users = [u \in UserIds |-> None]
    /\ trainers = EmptyBag
    /\ capacity = 1
    /\ work_schedule \in LateBreak
    /\ trainings = [T \in TrainingIds |-> Null]
    /\ NoBookings

UserNext ==
    \/ \E u \in UserIds, role \in ROLES : User_save(u, role)
    \/ \E u \in UserIds : User_delete(u)
    \/ \E u \in UserIds, gender \in GENDERS, schedule \in {None, "ws"} :
          Trainer_save(u, gender, schedule)
    \/ \E u \in UserIds, room \in RoomIds : Trainer_add_room(u, room)
    \/ \E u \in UserIds, room \in RoomIds : Trainer_remove_room(u, room)

UserSpec == UserInit /\ [][UserNext]_vars

----------------------------------------------------------------------------
\* Administration of the WorkSchedule of the trainer "tr", between Booking
\* saves.

\* the constraints of the first class Meta statement of WorkSchedule
WorkSchedule_Meta_first ==
    {"api_workschedule_start_time_lt_end_time", "no_work_during_break"}

\* those of the second one, which only sets the verbose names
WorkSchedule_Meta_second == {}

\* WorkSchedule.Meta once the class body has run: the second statement binds
\* the name Meta again, and the first class is dropped
WorkSchedule_Meta == WorkSchedule_Meta_second

\* the check of a constraint of WorkSchedule on a row
WorkSchedule_check(name, row) ==
    IF name = "api_workschedule_start_time_lt_end_time"
    THEN row.start_time < row.end_time
    ELSE row.end_time < row.break_start \/ row.start_time > row.break_end

\* the UPDATE of a WorkSchedule row under the constraints of WorkSchedule.Meta
WorkSchedule_write(row) ==
    IF \E name \in WorkSchedule_Meta : ~WorkSchedule_check(name, row)
    THEN "IntegrityError:api_workschedule"
    ELSE "WorkSchedule.saved"

\* WorkSchedule.save() of the row the trainer refers to, with new times
WorkSchedule_save(row) ==
    /\ work_schedule # Null
    /\ LET res == WorkSchedule_write(row)
       IN  /\ outcome' = res
           /\ work_schedule' = IF res = "WorkSchedule.saved"
                                THEN row ELSE work_schedule
    /\ UNCHANGED <<users, trainers, capacity, trainings, bookings, pc, req>>

\* WorkSchedule.delete(): Trainer.work_schedule is set to NULL (SET_NULL), the
\* Trainer and its Trainings stay
WorkSchedule_delete ==
    /\ work_schedule # Null
    /\ work_schedule' = Null
    /\ LET cleared(x) == [x EXCEPT !.work_schedule = None]
       IN  trainers' = BagOfAll(cleared, trainers)
    /\ outcome' = "WorkSchedule.deleted"
    /\ UNCHANGED <<users, capacity, trainings, bookings, pc, req>>

\* one Training from midnight on, and the trainer has a schedule
ScheduleInit ==
    /\ Seeded(LateBreak, MorningTrainings, Alone)
    /\ work_schedule # Null
    /\ NoBookings

ScheduleNext ==
    \/ \E row \in WorkSchedules : WorkSchedule_save(row)
    \/ WorkSchedule_delete
    \/ save
    \/ delete

ScheduleSpec == ScheduleInit /\ [][ScheduleNext]_vars

----------------------------------------------------------------------------
\* The properties checked.

\* the trainings that exist
Existing == {T \in TrainingIds : trainings[T] # Null}

\* the rows of api_booking that point to training T
BookingsOf(T) == LET of(b) == b.training = T IN Filter(bookings, of)

\* the number of persisted Bookings of training T
Persisted(T) == BagCardinality(BookingsOf(T))

\* slot t lies in the window [start_time, end_time] of training T
InWindow(T, t) == trainings[T].start_time <= t /\ t <= trainings[T].end_time

\* slot t lies in the break of the trainer's WorkSchedule
InBreak(t) ==
    /\ work_schedule # Null
    /\ work_schedule.break_start <= t
    /\ t <= work_schedule.break_end

\* the trainer of T has a WorkSchedule whose work window contains T's window
Available(T) ==
    /\ trainings[T].trainer # None
    /\ work_schedule # Null
    /\ work_schedule.start_time <= trainings[T].start_time
    /\ work_schedule.end_time >= trainings[T].end_time

\* C1 (as claimed): with a room of capacity 1, however the pre-save checks and
\* the inserts of concurrent booking attempts interleave, at most one Booking
\* made at a time inside the training's window is persisted for a Training.
C1_ExactlyOneBooked ==
    capacity = 1 =>
        \A T \in Existing :
            LET inside(b) == b.training = T /\ InWindow(T, b.booking_time)
            IN  BagCardinality(Filter(bookings, inside)) <= 1

\* C2 (as claimed): after sequential validated Booking saves and deletions the
\* number of persisted Bookings of a Training is at most the capacity of its
\* Room.
C2_WithinCapacity == \A T \in Existing : Persisted(T) <= capacity

\* every (user, training) pair is that of at most one persisted Booking
C3_NoTwoAlike ==
    \A b \in BagToSet(bookings) :
        /\ bookings[b] = 1
        /\ \A x \in BagToSet(bookings) :
              (x.user = b.user /\ x.training = b.training) => x = b

\* the INSERT of a Booking whose (user, training) pair is persisted already
\* fails and changes no Booking
C3_SecondInsertFails ==
    \A r \in Requests :
        ( /\ pc[r] = "checked"
          /\ pc'[r] = "idle"
          /\ \E x \in BagToSet(bookings) :
                x.user = req[r].user /\ x.training = req[r].training )
        => ( /\ bookings' = bookings
             /\ outcome' \in {"IntegrityError:unique_booking_per_user",
                              "IntegrityError:booking_time"} )

\* C3: no two persisted Bookings have the same (user, training) pair, also
\* when attempts of one user run concurrently; an INSERT that would create a
\* second one ends in an IntegrityError and leaves the Bookings unchanged.
C3_UniquePerUserAndTraining ==
    [](C3_NoTwoAlike) /\ [][C3_SecondInsertFails]_vars

\* C3 witness: with capacity 1 the only Booking is one the guard counts, and
\* the last save ended in the unique-constraint failure: that save passed the
\* guard before the Booking was inserted and reached its INSERT after it.
C3_Witness ==
    /\ capacity = 1
    /\ outcome = "IntegrityError:unique_booking_per_user"
    /\ Persisted("T1") = 1
    /\ bookings_count("T1") = 1

\* C4 (as claimed): for a FREE Training, whatever the state of its trainer
\* and whatever the booking_time, can_book returns true exactly when
\* bookings_count < room.capacity.
C4_FreeIffSeats ==
    \A T \in Existing : \A t \in Time :
        trainings[T].training_type = "SW" =>
            can_book(T, t) =
                (IF bookings_count(T) < capacity THEN "True" ELSE "False")

\* T has a group-type sibling: another Training with its trainer, its
\* group_training_type and a window containing its window
HasSibling(T) ==
    \E o \in Existing \ {T} :
        /\ trainings[o].trainer = trainings[T].trainer
        /\ trainings[o].group_training_type = trainings[T].group_training_type
        /\ trainings[o].start_time <= trainings[T].start_time
        /\ trainings[o].end_time >= trainings[T].end_time

\* C5 (as claimed): a GROUP Training (with its group type set) without
\* group-type sibling accepts no booking_time.
C5_LoneGroupRejects ==
    \A T \in Existing : \A t \in Time :
        ( /\ trainings[T].training_type = "GT"
          /\ trainings[T].group_training_type # None
          /\ ~HasSibling(T) )
        => can_book(T, t) # "True"

\* C6: for a Training of any type whose trainer has a WorkSchedule, can_book
\* returns false at every booking_time with break_start <= t <= break_end,
\* whatever the bookings, the capacity and the work window are.
C6_BreakBlocked ==
    \A T \in Existing : \A t \in Time :
        (trainings[T].trainer # None /\ InBreak(t)) => can_book(T, t) = "False"

\* C6 witness: a PERSONAL Training without Bookings whose trainer is
\* available, and the last save was refused: only the break refuses it.
C6_Witness ==
    /\ Existing = {"T1"}
    /\ trainings["T1"].training_type = "PT"
    /\ Available("T1")
    /\ bookings = EmptyBag
    /\ \E t \in Time : InBreak(t)
    /\ outcome = "ValidationError"

\* C7 (as claimed): after sequential validated Booking saves at most one
\* Booking of a PERSONAL Training exists.
C7_PersonalAtMostOne ==
    \A T \in Existing :
        trainings[T].training_type = "PT" => Persisted(T) <= 1

\* C8: a PERSONAL Training whose trainer's work window contains its window
\* accepts, while it has no Booking, every booking_time outside the break; once
\* a Booking made at a time inside its window is persisted it accepts none.
C8_PersonalOnce ==
    \A T \in Existing :
        (trainings[T].training_type = "PT" /\ Available(T)) =>
            /\ Persisted(T) = 0 =>
                  \A t \in Time : ~InBreak(t) => can_book(T, t) = "True"
            /\ (\E b \in BagToSet(bookings) :
                    b.training = T /\ InWindow(T, b.booking_time)) =>
                  \A t \in Time : can_book(T, t) = "False"

\* C8 witness: the Booking of such a Training, made inside its window, has
\* been saved, and some slot lies outside the break.
C8_Witness ==
    /\ trainings["T1"].training_type = "PT"
    /\ Available("T1")
    /\ outcome = "saved"
    /\ Persisted("T1") = 1
    /\ \E b \in BagToSet(bookings) :
          b.training = "T1" /\ InWindow("T1", b.booking_time)
    /\ \E t \in Time : ~InBreak(t)

\* a save of a Booking can_book refuses ends in a ValidationError, with or
\* without clean()
C9_RefusedRaises ==
    \A b \in NewBookings : \A validate \in BOOLEAN :
        ( /\ b.training # None
          /\ b.booking_time # NoTime
          /\ can_book(b.training, b.booking_time) = "False" )
        => save_result(b, validate) = "ValidationError"

\* a save that ends in a failure changes no Booking
C9_FailureKeepsBookings ==
    outcome' \notin {"saved", "deleted"} => bookings' = bookings

\* a Booking that a step adds is one can_book accepts in the state before it
C9_AddedWasBookable ==
    \A b \in BagToSet(bookings') :
        CopiesIn(b, bookings') > CopiesIn(b, bookings) =>
            /\ b.training # None
            /\ b.booking_time # NoTime
            /\ can_book(b.training, b.booking_time) = "True"

\* C9: a Booking save for which can_book is false ends in a ValidationError,
\* with or without clean(); a save that ends in a failure leaves the Bookings
\* unchanged; and every Booking a save adds is one can_book returned true for
\* in the state the save started in.
C9_GuardedSave ==
    /\ [](C9_RefusedRaises)
    /\ [][C9_FailureKeepsBookings /\ C9_AddedWasBookable]_vars

\* C9 witness: a full Training (as many counted Bookings as seats) and the
\* last save was refused.
C9_Witness ==
    /\ outcome = "ValidationError"
    /\ bookings_count("T1") = capacity
    /\ \A t \in Time : ~InBreak(t)

C11_StartBeforeEnd ==
    /\ \A T \in Existing : trainings[T].start_time < trainings[T].end_time
    /\ \A self \in TrainingInstances : \A validate \in BOOLEAN :
          self.start_time >= self.end_time =>
              LET res == Training_save_result(self, validate)
              IN  /\ res # "Training.saved"
                  /\ Training_clean(self) = "ok" =>
                        res = "IntegrityError:api_training_start_time_lt_end_time"

\* a Training save that ends in a failure changes no Training
C11_FailureKeepsTrainings ==
    outcome' \notin {"Training.saved", "Training.deleted"} =>
        trainings' = trainings

\* C11: every persisted Training has start_time < end_time in every reachable
\* state; a create or update of a Training with start_time >= end_time fails
\* at write time and leaves the stored Trainings unchanged.
C11_TimesChecked ==
    [](C11_StartBeforeEnd) /\ [][C11_FailureKeepsTrainings]_vars

\* C11 witness: a Training is stored and the last save, of an instance that
\* passes clean(), was refused by the constraint.
C11_Witness ==
    /\ trainings["T1"] # Null
    /\ outcome = "IntegrityError:api_training_start_time_lt_end_time"

\* C13 (as claimed): after Training saves validated by clean() and calls of
\* Trainer.add_room and Trainer.remove_room, every persisted Training that has
\* a trainer has its room among the rooms of that trainer.
C13_RoomAuthorized ==
    \A T \in Existing :
        trainings[T].trainer # None =>
            trainings[T].room \in Trainer_rooms(trainings[T].trainer)

\* the ValidationErrors of Training.clean
C16_ValidationErrors ==
    {"ValidationError:group_type_missing", "ValidationError:group_type_given",
     "ValidationError:room", "ValidationError:free_with_trainer"}

\* the three rules a Training has to keep
C16_Rules(self) ==
    /\ self.training_type = "GT" <=> self.group_training_type # None
    /\ self.trainer # None => self.room \in Trainer_rooms(self.trainer)
    /\ ~(self.trainer # None /\ self.training_type = "SW")

\* clean() accepts an instance exactly when it keeps the rules, and a
\* validated save of one that breaks a rule ends in a ValidationError
C16_CleanIffRules ==
    \A self \in TrainingInstances :
        /\ Training_clean(self) = "ok" <=> C16_Rules(self)
        /\ ~C16_Rules(self) =>
              Training_save_result(self, TRUE) \in C16_ValidationErrors

\* a save that ends in a ValidationError changes no Training
C16_RefusedNotPersisted ==
    outcome' \in C16_ValidationErrors => trainings' = trainings

\* C16: Training.clean() accepts a Training if and only if (it is GROUP
\* exactly when its group type is set) and (a trainer implies the room is
\* among the trainer's rooms) and not (a trainer and FREE); on a violation the
\* validated save raises a ValidationError and persists nothing.
C16_CleanEnforcesRules ==
    [](C16_CleanIffRules) /\ [][C16_RefusedNotPersisted]_vars

\* C16 witness: a Training is stored and the last save was refused for being
\* a FREE training with a trainer.
C16_Witness ==
    /\ trainings["T1"] # Null
    /\ outcome = "ValidationError:free_with_trainer"

\* the Trainer rows of the user u
C12_TrainersOf(u) == LET of(x) == x.user = u IN Filter(trainers, of)

\* every saved User whose role is trainer has exactly one Trainer row
C12_OneTrainerEach ==
    \A u \in UserIds :
        users[u] = "TR" => BagCardinality(C12_TrainersOf(u)) = 1

\* a User save leaves every Trainer row there is as it is and adds at most
\* one row, for a user that had none
C12_SaveKeepsTrainers ==
    outcome' = "User.saved" =>
        /\ \A x \in BagToSet(trainers) :
              CopiesIn(x, trainers') = CopiesIn(x, trainers)
        /\ \A x \in BagToSet(trainers') :
              CopiesIn(x, trainers) = 0 =>
                  /\ CopiesIn(x, trainers') = 1
                  /\ BagCardinality(C12_TrainersOf(x.user)) = 0
        /\ BagCardinality(trainers') <= BagCardinality(trainers) + 1

\* C12: after any sequence of User saves (creations, updates, role changes)
\* every saved User whose role is trainer has exactly one Trainer row; saving
\* such a User again creates no second Trainer and leaves gender, rooms and
\* work_schedule of the existing one unchanged.
C12_TrainerProfile ==
    [](C12_OneTrainerEach) /\ [][C12_SaveKeepsTrainers]_vars

\* C12 witness: the trainer "tr" was saved again after its Trainer row had
\* been given a gender, a room and a schedule, and the row still has them.
C12_Witness ==
    /\ users["tr"] = "TR"
    /\ outcome = "User.saved"
    /\ \E x \in BagToSet(trainers) :
          /\ x.user = "tr"
          /\ x.gender = "F"
          /\ x.rooms = {"R2"}
          /\ x.work_schedule = "ws"

\* C15 (as claimed): every persisted WorkSchedule has start_time < end_time;
\* a create or update with start_time >= end_time is rejected at write time.
C15_ScheduleStartBeforeEnd ==
    work_schedule # Null => work_schedule.start_time < work_schedule.end_time

\* C18 (as claimed): once the WorkSchedule of a trainer is cleared, can_book
\* returns false at every booking_time for the trainer's GROUP and PERSONAL
\* Trainings, and every save of a Booking for them ends in a ValidationError.
C18_NoScheduleRejects ==
    work_schedule = Null =>
        \A T \in Existing :
            ( /\ trainings[T].trainer # None
              /\ trainings[T].training_type \in {"GT", "PT"} )
            => /\ \A t \in Time : can_book(T, t) = "False"
               /\ \A b \in NewBookings : \A validate \in BOOLEAN :
                     (b.training = T /\ b.booking_time # NoTime) =>
                         save_result(b, validate) = "ValidationError"

\* C14: for a GROUP or PERSONAL Training whose window is not contained in
\* the work window of its trainer's WorkSchedule, can_book returns false at
\* every booking_time, and no Booking of it is persisted.
C14_OutsideWorkWindowRejected ==
    \A T \in Existing :
        ( /\ trainings[T].training_type \in {"GT", "PT"}
          /\ trainings[T].trainer # None
          /\ work_schedule # Null
          /\ ~( /\ work_schedule.start_time <= trainings[T].start_time
                /\ work_schedule.end_time >= trainings[T].end_time ) )
        => /\ \A t \in Time : can_book(T, t) = "False"
           /\ Persisted(T) = 0

\* C14 witness: a PERSONAL Training that starts inside the work window and
\* ends after it, with a free room and a slot outside the break, and the last
\* save was refused.
C14_Witness ==
    /\ trainings["T1"].training_type = "PT"
    /\ trainings["T1"].trainer # None
    /\ work_schedule # Null
    /\ work_schedule.start_time <= trainings["T1"].start_time
    /\ work_schedule.end_time < trainings["T1"].end_time
    /\ \E t \in Time : ~InBreak(t)
    /\ bookings = EmptyBag
    /\ outcome = "ValidationError"

\* C17 (as claimed): for every after_time, get_available_trainings returns
\* exactly the Trainings that start at or after it, have no Booking made
\* inside their window and have fewer Bookings than the room has seats.
C17_AvailableTrainings ==
    \A after_time \in Time :
        LET res == get_available_trainings(after_time)
        IN  /\ res.raised = None
            /\ res.trainings =
                  {T \in Existing :
                      /\ trainings[T].start_time >= after_time
                      /\ \A b \in BagToSet(bookings) :
                            b.training = T => ~InWindow(T, b.booking_time)
                      /\ Persisted(T) < capacity}

\* C19 (as claimed): after validated sequential Booking saves
\* Room.available_seats is a number between 0 and the capacity of the room.
C19_SeatsInRange ==
    /\ Room_available_seats.raised = None
    /\ Room_available_seats.seats \in 0..capacity

====
